---- MODULE Spec2Model ----
(***************************************************************************)
(* A model of the reconciliation core of emonkak/tempura:                  *)
(*   - Block (src/src/directives/condition.ts, lines 166-381) together     *)
(*     with the Updater queue that Block.forceUpdate feeds;                *)
(*   - ChoiceBinding (src/src/directives/choice.ts);                       *)
(*   - ConditionBinding (src/src/directives/condition.ts, lines 83-165);   *)
(*   - the template caches of Scope and LocalScope (src/unnamed/part_000); *)
(*   - the UnsafeSVG directive (src/src/directives/unsafeSVG.ts).          *)
(* Each component has a specification of its own (SpecBlock, SpecChoice,   *)
(* SpecCond, SpecScope, SpecSVG); the variables of the other components    *)
(* stay at their initial values.                                           *)
(***************************************************************************)
EXTENDS Integers, Sequences, FiniteSets

VARIABLES
    \* ---- Block (condition.ts 179-353) ----
    flags,                \* Block._flags, a 3-bit field
    pendingProps,         \* Block._pendingProps
    memoizedProps,        \* Block._memoizedProps
    pendingMountPoint,    \* Block._pendingMountPoint  (0 = null, else index in mountPoints)
    memoizedMountPoint,   \* Block._memoizedMountPoint (0 = null)
    memoizedTemplate,     \* Block._memoizedTemplate   ("null" or a template)
    memoizedValues,       \* Block._memoizedValues     ("none" = the initial [])
    cachedMountPoints,    \* Block._cachedMountPoints  (isNull, or a map template -> mount point)
    mountPoints,          \* every MountPoint template.mount has produced, in order of creation
    \* ---- Updater (external collaborator) ----
    pendingRenderables,   \* blocks enqueued by requestUpdate, not yet picked up by a flush
    flushing,             \* the batch the running flush still has to visit
    \* ---- history of the block ----
    lastResult,           \* what the render function returned to the last render
    requests,             \* updater.requestUpdate calls for the block since its last render
    committed,            \* the pending mount point was committed (mount/update) since the last render
    disciplined,          \* every render so far was followed by mount/update before the next render
    \* ---- sub-bindings held by a ChoiceBinding or a ConditionBinding ----
    bindings,             \* every Binding createBinding has produced, in order of creation
    subCalls,             \* the sub-bindings the last operation called unbind / disconnect on
    released,             \* the ChoiceBinding / ConditionBinding itself has received disconnect
    \* ---- ChoiceBinding (choice.ts 44-137) ----
    currentBinding,       \* ChoiceBinding._currentBinding (index in bindings; 0 = no ChoiceBinding)
    currentKey,           \* ChoiceBinding._currentKey
    choiceDirective,      \* ChoiceBinding._directive: its key and the kind of value factory(key) yields
    cachedBindings,       \* ChoiceBinding._cachedBindings (key -> index in bindings, 0 = absent)
    disturbed,            \* unbind or disconnect has been called on the ChoiceBinding
    replaced,             \* keys whose binding updateBinding has replaced (the kind changed)
    \* ---- ConditionBinding (condition.ts 83-165) ----
    condDirective,        \* ConditionBinding._directive
    trueBinding,          \* ConditionBinding._trueBinding  (0 = null)
    falseBinding,         \* ConditionBinding._falseBinding (0 = null)
    \* ---- Scope and LocalScope (unnamed/part_000) ----
    templateCaches,       \* _templateCaches of each scope object (strings -> index in templates, 0 = absent)
    templates,            \* every Template a parser has produced, in order of creation
    returned,             \* per scope object and strings array: the Template instances returned so far
    createCalls,          \* per scope object and strings array: the create calls made (saturating)
    \* ---- UnsafeSVG (unsafeSVG.ts) with the parts and the Updater's effect queue ----
    partValue,            \* Part.value of each part
    mutationEffects,      \* parts enqueued by updater.enqueueMutationEffect, not yet committed
    svgResult,            \* how the last application of the directive ended
    \* ---- Scope and LocalScope: variables ----
    variableScope,        \* _variableScope of each scope object (renderable -> record of variables)
    globalVariables,      \* _globalVariables of each scope object
    lastSet               \* per scope object, renderable and key: the value last given to setVariable

blockVars == <<flags, pendingProps, memoizedProps, pendingMountPoint,
               memoizedMountPoint, memoizedTemplate, memoizedValues,
               cachedMountPoints, mountPoints, pendingRenderables, flushing,
               lastResult, requests, committed, disciplined>>

subVars == <<bindings, subCalls, released>>

choiceVars == <<currentBinding, currentKey, choiceDirective, cachedBindings,
                disturbed, replaced>>

condVars == <<condDirective, trueBinding, falseBinding>>

scopeVars == <<templateCaches, templates, returned, createCalls>>

svgVars == <<partValue, mutationEffects, svgResult>>

variableVars == <<variableScope, globalVariables, lastSet>>

vars == <<blockVars, subVars, choiceVars, condVars, scopeVars, svgVars, variableVars>>

nonBlockVars == <<subVars, choiceVars, condVars, scopeVars, svgVars, variableVars>>

(***************************************************************************)
(* Bounds.                                                                 *)
(***************************************************************************)
MaxMountPoints == 3   \* template.mount calls per behaviour
MaxQueue == 2         \* entries of the Updater's queue
MaxBindings == 4      \* createBinding calls per behaviour

Templates == {"T1", "T2"}
Values == {"v1", "v2"}
Props == {"p1", "p2"}
TemplateKeys == Templates \cup {"null"}

(***************************************************************************)
(* BlockFlag (condition.ts 173-177) and the bit operations used on it.     *)
(***************************************************************************)
MOUNTED == 1
DIRTY == 2
UPDATING == 4

Bit(f, b) == (f \div b) % 2

HasFlag(f, b) == Bit(f, b) = 1

BitToggle(f, m) ==
    LET g(b) == (Bit(f, b) + Bit(m, b)) % 2
    IN  g(MOUNTED) * MOUNTED + g(DIRTY) * DIRTY + g(UPDATING) * UPDATING

\* f | m
BitOr(f, m) ==
    LET g(b) == IF Bit(f, b) = 1 \/ Bit(m, b) = 1 THEN 1 ELSE 0
    IN  g(MOUNTED) * MOUNTED + g(DIRTY) * DIRTY + g(UPDATING) * UPDATING

\* f ^ m
BitXor(f, m) ==
    LET g(b) == (Bit(f, b) + Bit(m, b)) % 2
    IN  g(MOUNTED) * MOUNTED + g(DIRTY) * DIRTY + g(UPDATING) * UPDATING

\* get isDirty()
IsDirty == HasFlag(flags, DIRTY)

(***************************************************************************)
(* Template.mount / Template.patch and the mount points they produce.      *)
(* A values array is modelled by one value; a mount point remembers the    *)
(* template it was mounted from and the values its parts currently hold.   *)
(* The position of its root nodes in the host's node tree is not part of   *)
(* the state.                                                              *)
(***************************************************************************)
TemplateMount(t, v) ==
    [template |-> t, values |-> v]

\* patch re-applies only the values that are not identical to the old ones
TemplatePatch(mp, oldValues, newValues) ==
    IF oldValues = newValues THEN mp ELSE [mp EXCEPT !.values = newValues]

\* inserts the root nodes before the part's end node: no part changes
ConnectMountPoint(mp) == mp

\* removes the root nodes and calls disconnect on every part
DisconnectMountPoint(mp) == mp

NullCache == [isNull |-> TRUE, map |-> [t \in TemplateKeys |-> 0]]

\* this._cachedMountPoints.set(this._memoizedTemplate!, this._memoizedMountPoint)
StashDropped(cache, t, mp) == [cache EXCEPT !.isNull = FALSE]

StashMountPoint(cache, t, mp) ==
    [isNull |-> FALSE, map |-> [cache.map EXCEPT ![t] = mp]]

(***************************************************************************)
(* Block: constructor.                                                     *)
(***************************************************************************)
InitBlock ==
    /\ flags = DIRTY
    /\ pendingProps \in Props
    /\ memoizedProps = pendingProps
    /\ pendingMountPoint = 0
    /\ memoizedMountPoint = 0
    /\ memoizedTemplate = "null"
    /\ memoizedValues = "none"
    /\ cachedMountPoints = NullCache
    /\ mountPoints = <<>>
    /\ pendingRenderables = <<>>
    /\ flushing = <<>>
    /\ lastResult = [template |-> "null", values |-> "none"]
    /\ requests = 0
    /\ committed = TRUE
    /\ disciplined = TRUE

\* no flush is running: the flush loop runs to completion before other calls
Idle == flushing = <<>>

(***************************************************************************)
(* Block.setProps                                                          *)
(***************************************************************************)
SetProps(newProps) ==
    /\ Idle
    /\ IF newProps # pendingProps
       THEN /\ pendingProps' = newProps
            /\ flags' = BitOr(flags, DIRTY)
       ELSE UNCHANGED <<pendingProps, flags>>
    /\ UNCHANGED <<memoizedProps, pendingMountPoint, memoizedMountPoint,
                   memoizedTemplate, memoizedValues, cachedMountPoints,
                   mountPoints, pendingRenderables, flushing, lastResult,
                   requests, committed, disciplined>>
    /\ UNCHANGED nonBlockVars

(***************************************************************************)
(* Block.forceUpdate, with Updater.requestUpdate appending to the queue.   *)
(***************************************************************************)
ForceUpdateSkipsUnmounted == ~HasFlag(flags, MOUNTED)

\* the early return of forceUpdate
ForceUpdateSkips == (~HasFlag(flags, MOUNTED)) \/ HasFlag(flags, UPDATING)

ForceUpdate ==
    /\ Idle
    /\ IF ForceUpdateSkips
       THEN UNCHANGED <<flags, pendingRenderables, requests>>
       ELSE /\ Len(pendingRenderables) < MaxQueue
            /\ flags' = BitOr(flags, DIRTY + UPDATING)
            /\ pendingRenderables' = Append(pendingRenderables, "block")
            /\ requests' = requests + 1
    /\ UNCHANGED <<pendingProps, memoizedProps, pendingMountPoint,
                   memoizedMountPoint, memoizedTemplate, memoizedValues,
                   cachedMountPoints, mountPoints, flushing, lastResult,
                   committed, disciplined>>
    /\ UNCHANGED nonBlockVars

(***************************************************************************)
(* Block.render: the render function returns {template: t, values: v}.     *)
(***************************************************************************)
BlockRender(t, v) ==
    /\ IF memoizedMountPoint = 0
       THEN /\ Len(mountPoints) < MaxMountPoints
            /\ mountPoints' = Append(mountPoints, TemplateMount(t, v))
            /\ pendingMountPoint' = Len(mountPoints) + 1
            /\ UNCHANGED cachedMountPoints
       ELSE IF memoizedTemplate # t
       THEN /\ IF cachedMountPoints.isNull \/ cachedMountPoints.map[t] = 0
               THEN /\ Len(mountPoints) < MaxMountPoints
                    /\ mountPoints' = Append(mountPoints, TemplateMount(t, v))
                    /\ pendingMountPoint' = Len(mountPoints) + 1
               ELSE /\ pendingMountPoint' = cachedMountPoints.map[t]
                    /\ UNCHANGED mountPoints
            /\ cachedMountPoints' =
                   StashMountPoint(cachedMountPoints, memoizedTemplate, memoizedMountPoint)
       ELSE /\ mountPoints' = [mountPoints EXCEPT ![memoizedMountPoint] =
                                  TemplatePatch(@, memoizedValues, v)]
            /\ UNCHANGED <<pendingMountPoint, cachedMountPoints>>
    /\ flags' = BitXor(flags, DIRTY + UPDATING)
    /\ memoizedProps' = pendingProps
    /\ memoizedValues' = v
    /\ memoizedTemplate' = t
    /\ UNCHANGED <<pendingProps, memoizedMountPoint>>

RenderHistory(t, v) ==
    /\ lastResult' = [template |-> t, values |-> v]
    /\ requests' = 0
    /\ committed' = FALSE
    /\ disciplined' = (disciplined /\ committed)

\* render called directly (the first render, or a parent re-rendering its child)
Render(t, v) ==
    /\ Idle
    /\ BlockRender(t, v)
    /\ RenderHistory(t, v)
    /\ UNCHANGED <<pendingRenderables, flushing>>
    /\ UNCHANGED nonBlockVars

(***************************************************************************)
(* Block.mount / Block.unmount / Block.update                              *)
(***************************************************************************)
Mount ==
    /\ Idle
    /\ mountPoints' = IF pendingMountPoint # 0
                      THEN [mountPoints EXCEPT ![pendingMountPoint] = ConnectMountPoint(@)]
                      ELSE mountPoints
    /\ flags' = BitOr(flags, MOUNTED)
    /\ memoizedMountPoint' = pendingMountPoint
    /\ committed' = TRUE
    /\ UNCHANGED <<pendingProps, memoizedProps, pendingMountPoint,
                   memoizedTemplate, memoizedValues, cachedMountPoints,
                   pendingRenderables, flushing, lastResult, requests,
                   disciplined>>
    /\ UNCHANGED nonBlockVars

Unmount ==
    /\ Idle
    /\ mountPoints' = IF memoizedMountPoint # 0
                      THEN [mountPoints EXCEPT ![memoizedMountPoint] = DisconnectMountPoint(@)]
                      ELSE mountPoints
    /\ flags' = BitXor(flags, MOUNTED)
    /\ UNCHANGED <<pendingProps, memoizedProps, pendingMountPoint,
                   memoizedMountPoint, memoizedTemplate, memoizedValues,
                   cachedMountPoints, pendingRenderables, flushing, lastResult,
                   requests, committed, disciplined>>
    /\ UNCHANGED nonBlockVars

Update ==
    /\ Idle
    /\ IF pendingMountPoint # memoizedMountPoint
       THEN /\ mountPoints' =
                 [i \in DOMAIN mountPoints |->
                    IF i = pendingMountPoint THEN ConnectMountPoint(mountPoints[i])
                    ELSE IF i = memoizedMountPoint THEN DisconnectMountPoint(mountPoints[i])
                    ELSE mountPoints[i]]
            /\ memoizedMountPoint' = pendingMountPoint
       ELSE UNCHANGED <<mountPoints, memoizedMountPoint>>
    /\ committed' = TRUE
    /\ UNCHANGED <<flags, pendingProps, memoizedProps, pendingMountPoint,
                   memoizedTemplate, memoizedValues, cachedMountPoints,
                   pendingRenderables, flushing, lastResult, requests,
                   disciplined>>
    /\ UNCHANGED nonBlockVars

(***************************************************************************)
(* Updater: a flush takes the queue as its batch; blocks enqueued while it *)
(* runs wait for the next flush.  For each block of the batch the flush    *)
(* calls render if the block reports isDirty.                              *)
(***************************************************************************)
FlushBegin ==
    /\ Idle
    /\ pendingRenderables # <<>>
    /\ flushing' = pendingRenderables
    /\ pendingRenderables' = <<>>
    /\ UNCHANGED <<flags, pendingProps, memoizedProps, pendingMountPoint,
                   memoizedMountPoint, memoizedTemplate, memoizedValues,
                   cachedMountPoints, mountPoints, lastResult, requests,
                   committed, disciplined>>
    /\ UNCHANGED nonBlockVars

FlushRender(t, v) ==
    /\ flushing # <<>>
    /\ IsDirty
    /\ BlockRender(t, v)
    /\ RenderHistory(t, v)
    /\ flushing' = Tail(flushing)
    /\ UNCHANGED pendingRenderables
    /\ UNCHANGED nonBlockVars

FlushSkip ==
    /\ flushing # <<>>
    /\ ~IsDirty
    /\ flushing' = Tail(flushing)
    /\ UNCHANGED <<flags, pendingProps, memoizedProps, pendingMountPoint,
                   memoizedMountPoint, memoizedTemplate, memoizedValues,
                   cachedMountPoints, mountPoints, pendingRenderables,
                   lastResult, requests, committed, disciplined>>
    /\ UNCHANGED nonBlockVars

(***************************************************************************)
(* The calls Block.unmount makes, in order: the cleanup callbacks of the   *)
(* hooks, then disconnectMountPoint on the memoized mount point.           *)
(***************************************************************************)
EffectHook == [type |-> "EFFECT", cleanup |-> TRUE]

LayoutEffectHook == [type |-> "LAYOUT_EFFECT", cleanup |-> TRUE]

PendingEffectHook == [type |-> "EFFECT", cleanup |-> FALSE]

OtherHook == [type |-> "OTHER", cleanup |-> FALSE]

HookLists ==
    {<<>>,
     <<EffectHook, LayoutEffectHook>>,
     <<LayoutEffectHook, OtherHook, EffectHook>>,
     <<PendingEffectHook, EffectHook, OtherHook, LayoutEffectHook>>}

MountPointParts == <<"part1", "part2">>

\* for each hook in order: EFFECT or LAYOUT_EFFECT => hook.cleanup?.()
CleanupEvents(hooks) ==
    LET idx == SelectSeq([i \in 1..Len(hooks) |-> i],
                         LAMBDA i : /\ hooks[i].type \in {"EFFECT", "LAYOUT_EFFECT"}
                                    /\ hooks[i].cleanup)
    IN  [j \in 1..Len(idx) |-> [event |-> "cleanup", of |-> idx[j]]]

\* disconnectMountPoint: for each part in order part.disconnect(updater)
DisconnectEvents(parts) ==
    [j \in 1..Len(parts) |-> [event |-> "disconnect", of |-> j]]

UnmountEvents(hooks, mountPoint) ==
    CleanupEvents(hooks)
       \o (IF mountPoint # 0 THEN DisconnectEvents(MountPointParts) ELSE <<>>)

(***************************************************************************)
(* Properties of the Block and of its scheduling.                          *)
(***************************************************************************)
AnyRender == \E t \in Templates, v \in Values : Render(t, v) \/ FlushRender(t, v)

AnyFlushRender == \E t \in Templates, v \in Values : FlushRender(t, v)

\* template.mount calls made for template t
MountCount(t) == Cardinality({i \in DOMAIN mountPoints : mountPoints[i].template = t})

\* the flag states the lifecycle names for entering render:
\* Fresh, Mounted-dirty, scheduled by forceUpdate
RenderEntryFlags == {DIRTY, MOUNTED + DIRTY, MOUNTED + DIRTY + UPDATING}

\* C1: dedup scheduling. For a MOUNTED block the forceUpdate calls made
\* before its next render produce exactly one requestUpdate: while none has
\* been made a forceUpdate call makes one (it is not skipped), never more
\* than one is made, and the flush that reaches the block renders it.
C1_DedupScheduling ==
    /\ requests <= 1
    /\ (HasFlag(flags, MOUNTED) /\ requests = 0) => ~ForceUpdateSkips
    /\ (flushing # <<>> /\ requests = 1 /\ HasFlag(flags, MOUNTED)) => IsDirty

C3_RenderClearsFlags ==
    [][(AnyRender /\ flags \in RenderEntryFlags) =>
          /\ ~HasFlag(flags', DIRTY)
          /\ ~HasFlag(flags', UPDATING)
          /\ memoizedProps' = pendingProps
          /\ memoizedTemplate' = lastResult'.template
          /\ memoizedValues' = lastResult'.values]_vars

\* C4: template toggle reuse. While every render is followed by mount or
\* update, template.mount is called at most once per template, and the mount
\* point a render selects is the one mounted from the template it rendered:
\* rendering T1, T2, T1 selects the original T1 mount point again.
C4_ToggleReuse ==
    disciplined =>
        /\ \A t \in Templates : MountCount(t) <= 1
        /\ pendingMountPoint # 0 =>
              mountPoints[pendingMountPoint].template = memoizedTemplate

\* a render has just taken an older mount point out of the cache
C4_Witness ==
    /\ disciplined
    /\ ~committed
    /\ pendingMountPoint # 0
    /\ pendingMountPoint # memoizedMountPoint
    /\ pendingMountPoint < Len(mountPoints)
    /\ \A t \in {"T1", "T2"} : MountCount(t) = 1

\* the block fields forceUpdate and setProps never write
BlockRest == <<memoizedProps, pendingMountPoint, memoizedMountPoint,
               memoizedTemplate, memoizedValues, cachedMountPoints,
               mountPoints, lastResult>>

\* C13: forceUpdate guard. A forceUpdate call that changes anything was
\* made on a block that is MOUNTED and not UPDATING; it sets DIRTY and
\* UPDATING, keeps MOUNTED, makes exactly one requestUpdate for the block
\* and writes no other field.
C13_ForceUpdateGuard ==
    [][ForceUpdate =>
          /\ HasFlag(flags, MOUNTED)
          /\ ~HasFlag(flags, UPDATING)
          /\ flags' = MOUNTED + DIRTY + UPDATING
          /\ pendingRenderables' = Append(pendingRenderables, "block")
          /\ requests' = requests + 1
          /\ UNCHANGED pendingProps
          /\ UNCHANGED BlockRest]_vars

\* forceUpdate has been accepted once on a block that was rendered and mounted
C13_Witness ==
    /\ flags = MOUNTED + DIRTY + UPDATING
    /\ requests = 1
    /\ pendingRenderables = <<"block">>
    /\ memoizedMountPoint # 0

\* C14: setProps. A setProps call that changes anything was given props
\* that differ from the pending props; it stores them as pending props and
\* sets DIRTY, keeps MOUNTED and UPDATING as they were, and neither renders
\* nor enqueues the block nor writes any other field.
C14_SetPropsLazy ==
    [][\A p \in Props : SetProps(p) =>
          /\ p # pendingProps
          /\ pendingProps' = p
          /\ HasFlag(flags', DIRTY)
          /\ HasFlag(flags', MOUNTED) = HasFlag(flags, MOUNTED)
          /\ HasFlag(flags', UPDATING) = HasFlag(flags, UPDATING)
          /\ UNCHANGED <<pendingRenderables, flushing, requests>>
          /\ UNCHANGED BlockRest]_vars

\* new props are pending on a block that was rendered and mounted
C14_Witness ==
    /\ pendingProps # memoizedProps
    /\ flags = MOUNTED + DIRTY
    /\ memoizedMountPoint # 0
    /\ requests = 0

\* C15: Block.unmount clears MOUNTED whatever the flags were; the cleanup
\* callbacks of the effect and layout-effect hooks run in registration order
\* before any part is disconnected, and every part of the memoized mount
\* point is disconnected.
C15_UnmountClearsMounted ==
    /\ [][Unmount => ~HasFlag(flags', MOUNTED)]_vars
    /\ [](\A hooks \in HookLists :
            LET log == UnmountEvents(hooks, 1)
                cleanups == SelectSeq(log, LAMBDA e : e.event = "cleanup")
                disconnects == SelectSeq(log, LAMBDA e : e.event = "disconnect")
            IN  /\ log = cleanups \o disconnects
                /\ \A i, j \in DOMAIN cleanups : i < j => cleanups[i].of < cleanups[j].of
                /\ {e.of : e \in {cleanups[i] : i \in DOMAIN cleanups}} =
                      {i \in DOMAIN hooks :
                          /\ hooks[i].type \in {"EFFECT", "LAYOUT_EFFECT"}
                          /\ hooks[i].cleanup}
                /\ {e.of : e \in {disconnects[i] : i \in DOMAIN disconnects}} =
                      DOMAIN MountPointParts)

\* C19: UPDATING means scheduled. UPDATING is set only while a
\* requestUpdate made for the block has not been followed by a render, and a
\* MOUNTED block with no such request accepts the next forceUpdate.
C19_UpdatingMeansScheduled ==
    /\ HasFlag(flags, UPDATING) => requests >= 1
    /\ (HasFlag(flags, MOUNTED) /\ requests = 0 /\ Idle) => ~ForceUpdateSkips

\* C20: template/mount-point consistency. The memoized mount point that a
\* render patches or stashes was mounted from the memoized template, and
\* after the render every entry of the mount-point cache maps a template to
\* a mount point mounted from that template.
C20_MountPointConsistency ==
    [][AnyRender =>
          /\ memoizedMountPoint # 0 =>
                mountPoints[memoizedMountPoint].template = memoizedTemplate
          /\ \A t \in Templates :
                cachedMountPoints'.map[t] # 0 =>
                   mountPoints'[cachedMountPoints'.map[t]].template = t]_vars

\* the mount point a render has selected: the memoized one when it was
\* patched in place, otherwise the pending one
PatchedInPlace(t) == memoizedMountPoint # 0 /\ memoizedTemplate = t

\* C21: values are applied on every render. After a render that returned
\* values V the parts of the mount point the render selected hold V, also
\* when the mount point was taken from the mount-point cache, so that
\* memoizedValues equals the values bound in the selected mount point.
C21_ValuesApplied ==
    [][AnyRender =>
          LET selected == IF PatchedInPlace(lastResult'.template)
                          THEN memoizedMountPoint ELSE pendingMountPoint'
          IN  /\ selected # 0
              /\ mountPoints'[selected].values = lastResult'.values
              /\ memoizedValues' = mountPoints'[selected].values]_vars

NextBlock ==
    \/ \E p \in Props : SetProps(p)
    \/ ForceUpdate
    \/ \E t \in Templates, v \in Values : Render(t, v)
    \/ Mount
    \/ Unmount
    \/ Update
    \/ FlushBegin
    \/ \E t \in Templates, v \in Values : FlushRender(t, v)
    \/ FlushSkip

(***************************************************************************)
(* The binding protocol (createBinding / updateBinding and the lifecycle   *)
(* of a Binding: disconnect is terminal, so the owner of a ChoiceBinding   *)
(* or ConditionBinding calls nothing but disconnect on it once it has      *)
(* disconnected it).  A value is modelled by its directive kind.  A binding   *)
(* remembers its kind, whether it is bound, whether it has received        *)
(* disconnect, and the key or branch it was created for.                   *)
(***************************************************************************)
Kinds == {"K1", "K2"}

NoCalls == [unbound |-> {}, disconnected |-> {}]

NewBinding(kind, tag) ==
    [kind |-> kind, bound |-> TRUE, disconnected |-> FALSE, tag |-> tag]

\* binding.unbind(updater)
SubUnbind(h, b) == [h EXCEPT ![b].bound = FALSE]

\* binding.disconnect()
SubDisconnect(h, b) == [h EXCEPT ![b].bound = FALSE, ![b].disconnected = TRUE]

DisconnectAll(h, bs) ==
    [b \in DOMAIN h |-> IF b \in bs THEN SubDisconnect(h, b)[b] ELSE h[b]]

\* createBinding(part, value, updater): the new binding is the last of the heap
CreateBinding(h, kind, tag) == Append(h, NewBinding(kind, tag))

KindMatches(h, b, kind) == h[b].kind = kind

\* updateBinding(binding, newValue, updater): the same binding, bound again,
\* when the kind matches; otherwise the old one is unbound and disconnected
\* and a new one is created
UpdateBinding(h, b, kind, tag) ==
    IF KindMatches(h, b, kind)
    THEN [h EXCEPT ![b].bound = TRUE]
    ELSE CreateBinding(SubDisconnect(SubUnbind(h, b), b), kind, tag)

UpdateBindingResult(h, b, kind) ==
    IF KindMatches(h, b, kind) THEN b ELSE Len(h) + 1

UpdateBindingCalls(h, b, kind) ==
    IF KindMatches(h, b, kind) THEN NoCalls
    ELSE [unbound |-> {b}, disconnected |-> {b}]

ParkedSub == bindings = <<>> /\ subCalls = NoCalls /\ released = FALSE

(***************************************************************************)
(* ChoiceBinding.  Keys are JavaScript values: "NaN" stands for the number *)
(* NaN, which Object.is and Map treat as equal to itself and which the     *)
(* operator !== treats as different from itself.                           *)
(***************************************************************************)
Keys == {"A", "B", "NaN"}

\* Object.is(a, b)
ObjectIs(a, b) == a = b

\* a !== b
StrictNotEqual(a, b) == a # b \/ a = "NaN"

EmptyBindingCache == [k \in Keys |-> 0]

\* this._cachedBindings.set(oldKey, this._currentBinding)
CacheBindingDropped(cache, key, b) == cache

CacheBinding(cache, key, b) == [cache EXCEPT ![key] = b]

\* ChoiceDirective[directiveTag]: createBinding for factory(key), then the constructor
InitChoice ==
    /\ \E k \in Keys, kind \in Kinds :
          /\ choiceDirective = [key |-> k, kind |-> kind]
          /\ bindings = <<NewBinding(kind, k)>>
          /\ currentKey = k
    /\ currentBinding = 1
    /\ cachedBindings = EmptyBindingCache
    /\ subCalls = NoCalls
    /\ released = FALSE
    /\ disturbed = FALSE
    /\ replaced = {}

ParkedChoice ==
    /\ currentBinding = 0
    /\ currentKey = "A"
    /\ choiceDirective = [key |-> "A", kind |-> "K1"]
    /\ cachedBindings = EmptyBindingCache
    /\ disturbed = FALSE
    /\ replaced = {}

nonChoiceVars == <<blockVars, condVars, scopeVars, svgVars, variableVars>>

\* set value(directive)
ChoiceSetValue(k, kind) ==
    /\ ~released
    /\ choiceDirective' = [key |-> k, kind |-> kind]
    /\ subCalls' = NoCalls
    /\ UNCHANGED <<bindings, released, currentBinding, currentKey, cachedBindings,
                   disturbed, replaced>>
    /\ UNCHANGED nonChoiceVars

\* ChoiceBinding.bind
ChoiceBind ==
    LET oldKey == currentKey
        newKey == choiceDirective.key
        kind == choiceDirective.kind
    IN  /\ ~released
        /\ IF ObjectIs(oldKey, newKey)
           THEN /\ KindMatches(bindings, currentBinding, kind) \/ Len(bindings) < MaxBindings
                /\ bindings' = UpdateBinding(bindings, currentBinding, kind, newKey)
                /\ currentBinding' = UpdateBindingResult(bindings, currentBinding, kind)
                /\ subCalls' = UpdateBindingCalls(bindings, currentBinding, kind)
                /\ replaced' = IF KindMatches(bindings, currentBinding, kind)
                               THEN replaced ELSE replaced \cup {newKey}
                /\ UNCHANGED <<currentKey, cachedBindings>>
           ELSE LET unbound == SubUnbind(bindings, currentBinding)
                    cache == CacheBinding(cachedBindings, oldKey, currentBinding)
                    cachedBinding == cache[newKey]
                IN  /\ cachedBindings' = cache
                    /\ IF cachedBinding # 0
                       THEN /\ KindMatches(unbound, cachedBinding, kind)
                                   \/ Len(bindings) < MaxBindings
                            /\ bindings' = UpdateBinding(unbound, cachedBinding, kind, newKey)
                            /\ currentBinding' = UpdateBindingResult(unbound, cachedBinding, kind)
                            /\ subCalls' =
                                 [UpdateBindingCalls(unbound, cachedBinding, kind)
                                    EXCEPT !.unbound = @ \cup {currentBinding}]
                            /\ replaced' = IF KindMatches(unbound, cachedBinding, kind)
                                           THEN replaced ELSE replaced \cup {newKey}
                       ELSE /\ Len(bindings) < MaxBindings
                            /\ bindings' = CreateBinding(unbound, kind, newKey)
                            /\ currentBinding' = Len(bindings) + 1
                            /\ subCalls' = [NoCalls EXCEPT !.unbound = {currentBinding}]
                            /\ UNCHANGED replaced
                    /\ currentKey' = newKey
        /\ UNCHANGED <<choiceDirective, disturbed, released>>
        /\ UNCHANGED nonChoiceVars

\* the cached bindings the loop of unbind / disconnect calls disconnect on
SweptBindings ==
    {cachedBindings[k] : k \in {x \in Keys : /\ cachedBindings[x] # 0
                                             /\ StrictNotEqual(x, choiceDirective.key)}}

\* ChoiceBinding.unbind
ChoiceUnbind ==
    /\ ~released
    /\ bindings' = DisconnectAll(SubUnbind(bindings, currentBinding), SweptBindings)
    /\ subCalls' = [unbound |-> {currentBinding}, disconnected |-> SweptBindings]
    /\ disturbed' = TRUE
    /\ UNCHANGED <<released, currentBinding, currentKey, choiceDirective, cachedBindings, replaced>>
    /\ UNCHANGED nonChoiceVars

\* ChoiceBinding.disconnect
ChoiceDisconnect ==
    /\ released' = TRUE
    /\ bindings' = DisconnectAll(bindings, SweptBindings)
    /\ subCalls' = [unbound |-> {}, disconnected |-> SweptBindings]
    /\ disturbed' = TRUE
    /\ UNCHANGED <<currentBinding, currentKey, choiceDirective, cachedBindings, replaced>>
    /\ UNCHANGED nonChoiceVars

(***************************************************************************)
(* Properties of the ChoiceBinding.                                        *)
(***************************************************************************)
\* the bindings createBinding has produced for a key
CreatedFor(tag) == {b \in DOMAIN bindings : bindings[b].tag = tag}

\* C5: choice directive cache reuse. While neither unbind nor disconnect
\* has been called on the ChoiceBinding, a key whose binding kept its kind
\* has had one binding created for it, and while that key is current that
\* binding is the current one: after A, B, A the current binding is again
\* the original binding of A.
C5_ChoiceCacheReuse ==
    (currentBinding # 0 /\ ~disturbed) =>
        \A k \in Keys \ replaced :
            /\ Cardinality(CreatedFor(k)) <= 1
            /\ currentKey = k => currentBinding \in CreatedFor(k)

\* the current key has been left and come back to, and its binding was
\* taken from the cache
C5_Witness ==
    /\ currentBinding # 0
    /\ ~disturbed
    /\ currentKey \notin replaced
    /\ cachedBindings[currentKey] = currentBinding
    /\ \E k \in Keys \ {currentKey} : cachedBindings[k] # 0
    /\ bindings[currentBinding].bound

\* C7: disconnected is terminal. No sub-binding that has received
\* disconnect is bound again afterwards.
C7_DisconnectedIsTerminal ==
    \A b \in DOMAIN bindings : ~(bindings[b].disconnected /\ bindings[b].bound)

\* C8: unbind and disconnect of a ChoiceBinding call disconnect on exactly
\* the cached bindings whose key is not the active key (the key of the
\* directive the ChoiceBinding holds), and unbind also calls unbind on the
\* current binding.
ActiveKey == choiceDirective.key

C8_SweepSparesActiveKey ==
    [][(ChoiceUnbind \/ ChoiceDisconnect) =>
          /\ subCalls'.disconnected =
                {cachedBindings[k] : k \in {x \in Keys : cachedBindings[x] # 0 /\ x # ActiveKey}}
          /\ ChoiceUnbind => currentBinding \in subCalls'.unbound]_vars

\* the sub-bindings the ChoiceBinding holds: the current one and the cached ones
HeldBindings == ({currentBinding} \cup {cachedBindings[k] : k \in Keys}) \ {0}

\* C18: no leak on full disconnect. After ChoiceBinding.disconnect every
\* sub-binding the ChoiceBinding holds, the current one and every cached
\* one, has received disconnect.
C18_DisconnectReleasesAll ==
    [][ChoiceDisconnect => \A b \in HeldBindings : bindings'[b].disconnected]_vars

NextChoice ==
    \/ \E k \in Keys, kind \in Kinds : ChoiceSetValue(k, kind)
    \/ ChoiceBind
    \/ ChoiceUnbind
    \/ ChoiceDisconnect

(***************************************************************************)
(* ConditionBinding.  The condition is a boolean or a zero-argument        *)
(* predicate returning val; each case is modelled by the kind of the value *)
(* it yields.                                                              *)
(***************************************************************************)
Conditions == [isFn : BOOLEAN, val : BOOLEAN]

CondDirectives == [condition : Conditions, trueKind : Kinds, falseKind : Kinds]

\* typeof condition === 'function' ? condition() : condition
EvalCondition(c) == c.val

\* if (condition): a function is truthy
Truthy(c) == c.isFn \/ c.val

\* the constructor
InitCond ==
    /\ condDirective \in CondDirectives
    /\ trueBinding = 0
    /\ falseBinding = 0
    /\ bindings = <<>>
    /\ subCalls = NoCalls
    /\ released = FALSE

ParkedCond ==
    /\ condDirective = [condition |-> [isFn |-> FALSE, val |-> TRUE],
                        trueKind |-> "K1", falseKind |-> "K1"]
    /\ trueBinding = 0
    /\ falseBinding = 0

nonCondVars == <<blockVars, choiceVars, scopeVars, svgVars, variableVars>>

\* set value(newDirective)
CondSetValue(d) ==
    /\ ~released
    /\ condDirective' = d
    /\ subCalls' = NoCalls
    /\ UNCHANGED <<bindings, released, trueBinding, falseBinding>>
    /\ UNCHANGED nonCondVars

BindBranchKeepsOther(this, other, kind, tag) ==
    IF this # 0
    THEN [ok |-> KindMatches(bindings, this, kind) \/ Len(bindings) < MaxBindings,
          heap |-> UpdateBinding(bindings, this, kind, tag),
          binding |-> UpdateBindingResult(bindings, this, kind),
          calls |-> UpdateBindingCalls(bindings, this, kind)]
    ELSE [ok |-> Len(bindings) < MaxBindings,
          heap |-> CreateBinding(bindings, kind, tag),
          binding |-> Len(bindings) + 1,
          calls |-> NoCalls]

\* one branch of ConditionBinding.bind: unbind the other branch's binding,
\* then update or create this branch's binding
BindBranch(this, other, kind, tag) ==
    LET unbound == IF other # 0 THEN SubUnbind(bindings, other) ELSE bindings
        otherCalls == IF other # 0 THEN {other} ELSE {}
    IN  IF this # 0
        THEN [ok |-> KindMatches(unbound, this, kind) \/ Len(bindings) < MaxBindings,
              heap |-> UpdateBinding(unbound, this, kind, tag),
              binding |-> UpdateBindingResult(unbound, this, kind),
              calls |-> [UpdateBindingCalls(unbound, this, kind)
                           EXCEPT !.unbound = @ \cup otherCalls]]
        ELSE [ok |-> Len(bindings) < MaxBindings,
              heap |-> CreateBinding(unbound, kind, tag),
              binding |-> Len(bindings) + 1,
              calls |-> [NoCalls EXCEPT !.unbound = otherCalls]]

\* ConditionBinding.bind
CondBind ==
    /\ ~released
    /\ IF EvalCondition(condDirective.condition)
       THEN LET r == BindBranch(trueBinding, falseBinding, condDirective.trueKind, "true")
            IN  /\ r.ok
                /\ bindings' = r.heap
                /\ trueBinding' = r.binding
                /\ subCalls' = r.calls
                /\ UNCHANGED falseBinding
       ELSE LET r == BindBranch(falseBinding, trueBinding, condDirective.falseKind, "false")
            IN  /\ r.ok
                /\ bindings' = r.heap
                /\ falseBinding' = r.binding
                /\ subCalls' = r.calls
                /\ UNCHANGED trueBinding
    /\ UNCHANGED <<condDirective, released>>
    /\ UNCHANGED nonCondVars

\* ConditionBinding.unbind
CondUnbind ==
    LET active == IF Truthy(condDirective.condition) THEN trueBinding ELSE falseBinding
        inactive == IF Truthy(condDirective.condition) THEN falseBinding ELSE trueBinding
        unbound == IF active # 0 THEN SubUnbind(bindings, active) ELSE bindings
    IN  /\ ~released
        /\ bindings' = IF inactive # 0 THEN SubDisconnect(unbound, inactive) ELSE unbound
        /\ subCalls' = [unbound |-> {active} \ {0}, disconnected |-> {inactive} \ {0}]
        /\ UNCHANGED <<condDirective, released, trueBinding, falseBinding>>
        /\ UNCHANGED nonCondVars

\* ConditionBinding.disconnect
CondDisconnect ==
    /\ released' = TRUE
    /\ bindings' = DisconnectAll(bindings, {trueBinding, falseBinding} \ {0})
    /\ subCalls' = [unbound |-> {}, disconnected |-> {trueBinding, falseBinding} \ {0}]
    /\ UNCHANGED <<condDirective, trueBinding, falseBinding>>
    /\ UNCHANGED nonCondVars

(***************************************************************************)
(* Properties of the ConditionBinding.                                     *)
(***************************************************************************)
\* C6: condition branch isolation. A bind that selects the false branch
\* calls unbind, and not disconnect, on the true-branch binding; a bind that
\* selects the true branch again with a value of the same kind keeps the
\* same true-branch binding and creates none; and neither bind nor unbind of
\* the ConditionBinding calls disconnect on a binding it holds for a branch.
C6_BranchIsolation ==
    [][/\ (CondBind /\ ~EvalCondition(condDirective.condition) /\ trueBinding # 0) =>
              /\ trueBinding \in subCalls'.unbound
              /\ trueBinding \notin subCalls'.disconnected
       /\ (/\ CondBind
           /\ EvalCondition(condDirective.condition)
           /\ trueBinding # 0
           /\ KindMatches(bindings, trueBinding, condDirective.trueKind)) =>
              /\ trueBinding' = trueBinding
              /\ Len(bindings') = Len(bindings)
       /\ (CondBind \/ CondUnbind) =>
              subCalls'.disconnected \cap {trueBinding', falseBinding'} = {}]_vars

IsBound(b) == b # 0 /\ bindings[b].bound

\* C16: exactly one branch is bound at a time. The true-branch and the
\* false-branch binding are never both bound, and after a bind the binding
\* of the branch the evaluated condition selects is bound while the binding
\* of the other branch, if there is one, was unbound by that bind.
C16_OneBranchBound ==
    /\ [](~(IsBound(trueBinding) /\ IsBound(falseBinding)))
    /\ [][CondBind =>
            LET selectsTrue == condDirective.condition.val
                selected == IF selectsTrue THEN trueBinding' ELSE falseBinding'
                other == IF selectsTrue THEN falseBinding' ELSE trueBinding'
            IN  /\ selected # 0
                /\ bindings'[selected].bound
                /\ other # 0 => /\ ~bindings'[other].bound
                                /\ other \in subCalls'.unbound]_vars

\* a predicate condition was flipped: the false branch is bound and the
\* true-branch binding is kept, unbound and not disconnected
C16_Witness ==
    /\ condDirective.condition.isFn
    /\ IsBound(falseBinding)
    /\ trueBinding # 0
    /\ ~bindings[trueBinding].bound
    /\ ~bindings[trueBinding].disconnected

\* C17: ConditionBinding.unbind treats as active the branch the last bind
\* selected, for a boolean and for a predicate condition: the binding of the
\* branch the condition evaluates to, when it is the bound one, receives
\* unbind and not disconnect.
C17_UnbindActiveBranch ==
    [][CondUnbind =>
          LET selected == IF EvalCondition(condDirective.condition)
                          THEN trueBinding ELSE falseBinding
          IN  IsBound(selected) =>
                 /\ selected \in subCalls'.unbound
                 /\ selected \notin subCalls'.disconnected]_vars

NextCond ==
    \/ \E d \in CondDirectives : CondSetValue(d)
    \/ CondBind
    \/ CondUnbind
    \/ CondDisconnect

(***************************************************************************)
(* Scope and LocalScope: the template caches.  A strings array is a        *)
(* reference; the two references carry the same skeleton text.             *)
(***************************************************************************)
MaxCreateCalls == 2   \* create*Template calls per scope and strings array

ScopeObjects == {"Scope", "LocalScope"}

StringsArrays == {"s1", "s2"}

Skeleton(strings) == "<div></div>"

EmptyTemplateCache == [s \in StringsArrays |-> 0]

\* this._templateCaches.get(strings); 0 stands for undefined
CachedTemplate(cache, strings) == cache[strings]

CacheTemplateDropped(cache, strings, template) == cache

\* this._templateCaches.set(strings, template)
CacheTemplate(cache, strings, template) == [cache EXCEPT ![strings] = template]

\* Template.parse / TaggedTemplate.parseHTML / TaggedTemplate.parseSVG
ParseTemplate(scope, strings, parser) ==
    [scope |-> scope, strings |-> strings, skeleton |-> Skeleton(strings),
     parser |-> parser]

InitScope ==
    /\ templateCaches = [sc \in ScopeObjects |-> EmptyTemplateCache]
    /\ templates = <<>>
    /\ returned = [sc \in ScopeObjects |-> [s \in StringsArrays |-> {}]]
    /\ createCalls = [sc \in ScopeObjects |-> [s \in StringsArrays |-> 0]]

nonScopeVars == <<blockVars, subVars, choiceVars, condVars, svgVars, variableVars>>

\* let template = cache.get(strings); if (template === undefined) { parse; set }
GetOrParse(scope, strings, parser) ==
    LET template == CachedTemplate(templateCaches[scope], strings)
        new == Len(templates) + 1
    IN IF template = 0
       THEN [template |-> new,
             templates |-> Append(templates, ParseTemplate(scope, strings, parser)),
             caches |-> [templateCaches EXCEPT
                            ![scope] = CacheTemplate(templateCaches[scope], strings, new)]]
       ELSE [template |-> template, templates |-> templates, caches |-> templateCaches]

Called(scope, strings) == [createCalls EXCEPT ![scope][strings] = @ + 1]

Returned(scope, strings, via, template) ==
    [returned EXCEPT ![scope][strings] = @ \cup {[via |-> via, template |-> template]}]

\* Scope.createTemplate(strings, _values)
CreateTemplate(strings, values) ==
    /\ createCalls["Scope"][strings] < MaxCreateCalls
    /\ LET r == GetOrParse("Scope", strings, "parse") IN
         /\ templates' = r.templates
         /\ templateCaches' = r.caches
         /\ returned' = Returned("Scope", strings, "createTemplate", r.template)
    /\ createCalls' = Called("Scope", strings)
    /\ UNCHANGED nonScopeVars

\* LocalScope.createHTMLTemplate(tokens, _values)
CreateHTMLTemplate(tokens, values) ==
    /\ createCalls["LocalScope"][tokens] < MaxCreateCalls
    /\ LET r == GetOrParse("LocalScope", tokens, "parseHTML") IN
         /\ templates' = r.templates
         /\ templateCaches' = r.caches
         /\ returned' = Returned("LocalScope", tokens, "createHTMLTemplate", r.template)
    /\ createCalls' = Called("LocalScope", tokens)
    /\ UNCHANGED nonScopeVars

\* LocalScope.createSVGTemplate(tokens, _values)
CreateSVGTemplate(tokens, values) ==
    /\ createCalls["LocalScope"][tokens] < MaxCreateCalls
    /\ LET r == GetOrParse("LocalScope", tokens, "parseSVG") IN
         /\ templates' = r.templates
         /\ templateCaches' = r.caches
         /\ returned' = Returned("LocalScope", tokens, "createSVGTemplate", r.template)
    /\ createCalls' = Called("LocalScope", tokens)
    /\ UNCHANGED nonScopeVars

(***************************************************************************)
(* Properties of the template caches.                                      *)
(***************************************************************************)
ReturnedTemplates(scope, strings) == {r.template : r \in returned[scope][strings]}

ParseCount(scope, strings) ==
    Cardinality({i \in DOMAIN templates :
                    templates[i].scope = scope /\ templates[i].strings = strings})

\* C9: template cache idempotence. In one scope all calls with the same
\* strings array return one Template instance, the parser has run at most
\* once for that strings array, and two different strings arrays (even with
\* the same skeleton text) never get the same Template.
C9_TemplateCacheIdempotent ==
    \A sc \in ScopeObjects : \A s \in StringsArrays :
        /\ Cardinality(ReturnedTemplates(sc, s)) <= 1
        /\ ParseCount(sc, s) <= 1
        /\ createCalls[sc][s] > 0 => ParseCount(sc, s) = 1
        /\ \A s2 \in StringsArrays \ {s} :
              ReturnedTemplates(sc, s) \cap ReturnedTemplates(sc, s2) = {}

C9_Witness ==
    /\ {r.via : r \in returned["LocalScope"]["s1"]} =
          {"createHTMLTemplate", "createSVGTemplate"}
    /\ createCalls["Scope"]["s1"] = MaxCreateCalls
    /\ createCalls["Scope"]["s2"] > 0
    /\ createCalls["LocalScope"]["s2"] > 0

NextScope ==
    \/ \E s \in StringsArrays, v \in Values : CreateTemplate(s, v)
    \/ \E s \in StringsArrays, v \in Values : CreateHTMLTemplate(s, v)
    \/ \E s \in StringsArrays, v \in Values : CreateSVGTemplate(s, v)

(***************************************************************************)
(* Scope and LocalScope: variables of a renderable, with the global        *)
(* variables as fallback.  "null" and "undefined" stand for the JavaScript *)
(* values; "absent" marks a property an object does not have.              *)
(***************************************************************************)
Renderables == {"r1", "r2"}

VarKeys == {"k1", "k2"}

VarValues == {"a", "null", "undefined"}

NoProperties == [k \in VarKeys |-> "absent"]

\* no entry of the WeakMap
NoVariables == [present |-> FALSE, props |-> NoProperties]

\* object[key]
Property(props, key) == IF props[key] = "absent" THEN "undefined" ELSE props[key]

\* a ?? b
NullishCoalesce(a, b) == IF a \in {"null", "undefined"} THEN b ELSE a

\* getVariable(key, renderable)
GetVariable(scope, key, renderable) ==
    LET variables == variableScope[scope][renderable]
        local == IF variables.present THEN Property(variables.props, key)
                 ELSE "undefined"
    IN  NullishCoalesce(local, Property(globalVariables[scope], key))

\* the body of setVariable(key, value, renderable)
StoreVariable(store, key, value, renderable) ==
    IF store[renderable].present
    THEN [store EXCEPT ![renderable].props[key] = value]
    ELSE [store EXCEPT ![renderable] =
             [present |-> TRUE, props |-> [NoProperties EXCEPT ![key] = value]]]

InitVariables ==
    /\ variableScope = [sc \in ScopeObjects |-> [r \in Renderables |-> NoVariables]]
    /\ \E g \in [VarKeys -> {"g", "absent"}] :
          globalVariables = [sc \in ScopeObjects |-> g]
    /\ lastSet = [sc \in ScopeObjects |-> [r \in Renderables |-> [k \in VarKeys |-> "never"]]]

ParkedVariables ==
    /\ variableScope = [sc \in ScopeObjects |-> [r \in Renderables |-> NoVariables]]
    /\ globalVariables = [sc \in ScopeObjects |-> NoProperties]
    /\ lastSet = [sc \in ScopeObjects |-> [r \in Renderables |-> [k \in VarKeys |-> "never"]]]

nonVariableVars == <<blockVars, subVars, choiceVars, condVars, scopeVars, svgVars>>

\* Scope.setVariable(key, value, renderable)
SetVariable(key, value, renderable) ==
    /\ variableScope' = [variableScope EXCEPT
                            !["Scope"] = StoreVariable(@, key, value, renderable)]
    /\ lastSet' = [lastSet EXCEPT !["Scope"][renderable][key] = value]
    /\ UNCHANGED globalVariables
    /\ UNCHANGED nonVariableVars

\* LocalScope.setVariable(key, value, renderable)
LocalSetVariable(key, value, renderable) ==
    /\ variableScope' = [variableScope EXCEPT
                            !["LocalScope"] = StoreVariable(@, key, value, renderable)]
    /\ lastSet' = [lastSet EXCEPT !["LocalScope"][renderable][key] = value]
    /\ UNCHANGED globalVariables
    /\ UNCHANGED nonVariableVars

\* C12: scope variable resolution. getVariable(key, r) returns the value
\* last given to setVariable(key, v, r), whatever the value, and the global
\* variable of the key when the key was never set on r; setVariable never
\* changes the global variables.
C12_VariableResolution ==
    /\ [](\A sc \in ScopeObjects : \A r \in Renderables : \A k \in VarKeys :
             GetVariable(sc, k, r) =
                IF lastSet[sc][r][k] # "never" THEN lastSet[sc][r][k]
                ELSE Property(globalVariables[sc], k))
    /\ [][globalVariables' = globalVariables]_vars

NextVariables ==
    \/ \E k \in VarKeys, v \in VarValues, r \in Renderables : SetVariable(k, v, r)
    \/ \E k \in VarKeys, v \in VarValues, r \in Renderables : LocalSetVariable(k, v, r)

(***************************************************************************)
(* The unsafeSVG directive.  A part holds a value, described by the class  *)
(* of the value and, for raw markup, its content.                          *)
(***************************************************************************)
MaxEffects == 3       \* pending mutation effects

Parts == {"child1", "child2", "attribute"}

ChildParts == {"child1", "child2"}

IsChildPartAlways(part) == TRUE

\* part instanceof ChildPart
IsChildPart(part) == part \in ChildParts

Contents == {"c1", "c2"}

NoValue == [class |-> "null", content |-> "none"]

\* new UnsafeSVG(content)
NewUnsafeSVG(content) == [class |-> "UnsafeSVG", content |-> content]

\* value instanceof UnsafeSVGChild
IsUnsafeSVGChild(value) == value.class = "UnsafeSVGChild"

InitSVG ==
    /\ partValue = [p \in Parts |-> NoValue]
    /\ mutationEffects = <<>>
    /\ svgResult = "none"

nonSVGVars == <<blockVars, subVars, choiceVars, condVars, scopeVars, variableVars>>

\* part.setValue(value, updater)
PartSetValue(pv, part, value) == [pv EXCEPT ![part] = value]

\* updater.enqueueMutationEffect(part)
EnqueueMutationEffect(queue, part) == Append(queue, part)

\* UnsafeSVG[directiveSymbol](part, updater), for the directive unsafeSVG(content)
ApplyUnsafeSVG(part, content) ==
    /\ IF ~IsChildPart(part)
       THEN /\ svgResult' = "error"
            /\ UNCHANGED <<partValue, mutationEffects>>
       ELSE IF IsUnsafeSVGChild(partValue[part]) /\ partValue[part].content = content
       THEN /\ svgResult' = "skipped"
            /\ UNCHANGED <<partValue, mutationEffects>>
       ELSE /\ Len(mutationEffects) < MaxEffects
            /\ partValue' = PartSetValue(partValue, part, NewUnsafeSVG(content))
            /\ mutationEffects' = EnqueueMutationEffect(mutationEffects, part)
            /\ svgResult' = "enqueued"
    /\ UNCHANGED nonSVGVars

\* a value of another class is bound to the part
SetOtherValue(part) ==
    /\ IsChildPart(part)
    /\ Len(mutationEffects) < MaxEffects
    /\ partValue' = PartSetValue(partValue, part, [class |-> "other", content |-> "none"])
    /\ mutationEffects' = EnqueueMutationEffect(mutationEffects, part)
    /\ svgResult' = "none"
    /\ UNCHANGED nonSVGVars

\* the Updater commits the pending mutation effects
CommitEffects ==
    /\ mutationEffects # <<>>
    /\ mutationEffects' = <<>>
    /\ svgResult' = "none"
    /\ UNCHANGED partValue
    /\ UNCHANGED nonSVGVars

(***************************************************************************)
(* Properties of the unsafeSVG directive.                                  *)
(***************************************************************************)
FromUnsafeSVG(value) == value.class \in {"UnsafeSVG", "UnsafeSVGChild"}

\* C10: raw-markup short-circuit. Applying unsafeSVG to a child part whose
\* value came from an earlier unsafeSVG application with the same content
\* calls neither part.setValue nor enqueueMutationEffect.
C10_ShortCircuit ==
    [][\A p \in Parts : \A c \in Contents :
          (/\ ApplyUnsafeSVG(p, c)
           /\ IsChildPart(p)
           /\ FromUnsafeSVG(partValue[p])
           /\ partValue[p].content = c) =>
              UNCHANGED <<partValue, mutationEffects>>]_vars

\* C11: applying unsafeSVG to a part that is not a child part ends in an
\* error, leaves the value of every part unchanged and enqueues nothing;
\* a part that is not a child part never holds a value written by unsafeSVG.
C11_NonChildPartRejected ==
    /\ [][\A p \in Parts \ ChildParts : \A c \in Contents :
             ApplyUnsafeSVG(p, c) =>
                /\ svgResult' = "error"
                /\ UNCHANGED <<partValue, mutationEffects>>]_vars
    /\ [](\A p \in Parts \ ChildParts :
             /\ ~FromUnsafeSVG(partValue[p])
             /\ \A i \in DOMAIN mutationEffects : mutationEffects[i] # p)

\* the directive has just been rejected on a part while a child part holds
\* raw markup and an effect is pending
C11_Witness ==
    /\ svgResult = "error"
    /\ \E p \in ChildParts : FromUnsafeSVG(partValue[p])
    /\ mutationEffects # <<>>
    /\ \A p \in Parts \ ChildParts : partValue[p] = NoValue

NextSVG ==
    \/ \E p \in Parts, c \in Contents : ApplyUnsafeSVG(p, c)
    \/ \E p \in Parts : SetOtherValue(p)
    \/ CommitEffects

(***************************************************************************)
(* Specifications.                                                         *)
(***************************************************************************)
ParkedBlock ==
    /\ InitBlock
    /\ pendingProps = "p1"

ParkedScope ==
    /\ templateCaches = <<>>
    /\ templates = <<>>
    /\ returned = <<>>
    /\ createCalls = <<>>

ParkedSVG ==
    /\ partValue = <<>>
    /\ mutationEffects = <<>>
    /\ svgResult = "none"

StartBlock == InitBlock /\ ParkedSub /\ ParkedChoice /\ ParkedCond /\ ParkedScope /\ ParkedSVG /\ ParkedVariables

SpecBlock == StartBlock /\ [][NextBlock]_vars

StartChoice == InitChoice /\ ParkedBlock /\ ParkedCond /\ ParkedScope /\ ParkedSVG /\ ParkedVariables

SpecChoice == StartChoice /\ [][NextChoice]_vars

StartCond == InitCond /\ ParkedBlock /\ ParkedChoice /\ ParkedScope /\ ParkedSVG /\ ParkedVariables

SpecCond == StartCond /\ [][NextCond]_vars

StartScope == InitScope /\ ParkedBlock /\ ParkedSub /\ ParkedChoice /\ ParkedCond /\ ParkedSVG /\ ParkedVariables

SpecScope == StartScope /\ [][NextScope]_vars

StartSVG == InitSVG /\ ParkedBlock /\ ParkedSub /\ ParkedChoice /\ ParkedCond /\ ParkedScope /\ ParkedVariables

SpecSVG == StartSVG /\ [][NextSVG]_vars

StartVariables ==
    InitVariables /\ ParkedBlock /\ ParkedSub /\ ParkedChoice /\ ParkedCond /\ ParkedScope /\ ParkedSVG

SpecVariables == StartVariables /\ [][NextVariables]_vars

====
